---- MODULE Spec2Model ----
(***************************************************************************)
(* BetterDays: the input tracker (InputManager), the archer character      *)
(* controller (BaseCharacter / Archer) and the events the game loop (Game) *)
(* feeds them: keyboard events, render ticks, right clicks, setTimeout     *)
(* callbacks and asset-load callbacks.                                     *)
(*                                                                         *)
(* Numbers.  Lengths, speeds and scales are integers in hundredths         *)
(* (0.05 is 5).  Arithmetic is exact (no floating-point rounding).  A      *)
(* direction vector is [x, y, z, s2] and stands for (x, y, z) / sqrt(s2);  *)
(* a coordinate is [r, q] and stands for (r + q / sqrt(2)) / 100.          *)
(* Time is in milliseconds; a pending setTimeout callback is a record      *)
(* [kind, left, stale] with `left` the time until it is due.  `stale` is   *)
(* history, not program state: it records that onRightClick ran again      *)
(* after the call that scheduled the callback.                             *)
(***************************************************************************)
EXTENDS Integers, Sequences, FiniteSets

VARIABLES
    keys,              \* InputManager.keys: key string -> BOOLEAN, partial
    isAiming,          \* Archer.isAiming
    moveSpeed,         \* BaseCharacter.moveSpeed, hundredths
    modelLoaded,       \* Archer.modelLoaded
    animations,        \* Archer.animations: the clip names that have a group
    currentAnimation,  \* Archer.currentAnimation: the group's name, or None
    position,          \* this.mesh.position of the mesh this.mesh now names
    scalingY,          \* this.mesh.scaling.y of that mesh, hundredths
    pending,           \* asset requests whose callback has not run yet
    loadedCount,       \* loadAnimations' loadedCount
    timers             \* pending setTimeout callbacks, in creation order

vars == <<keys, isAiming, moveSpeed, modelLoaded, animations, currentAnimation,
          position, scalingY, pending, loadedCount, timers>>

----------------------------------------------------------------------------
(* Program constants *)

NormalSpeed == 10
AimSpeed == 5
ScaleAim == 130
ScaleNormal == 100
DrawDelay == 1000
RecoilDelay == 500

ANIM_IDLE == "standing-idle"
ANIM_DRAW_ARROW == "standing draw arrow"
ANIM_AIM_OVERDRAW == "standing-aim-overdraw"
ANIM_AIM_RECOIL == "standing-aim-recoil"
ANIM_AIM_WALK_FORWARD == "standing-aim-walk-forward"
ANIM_AIM_WALK_BACK == "standing-aim-walk-back"
ANIM_AIM_WALK_LEFT == "standing-aim-walk-left"
ANIM_AIM_WALK_RIGHT == "standing-aim-walk-right"

animationsToLoad ==
    <<ANIM_IDLE, ANIM_DRAW_ARROW, ANIM_AIM_OVERDRAW, ANIM_AIM_RECOIL,
      ANIM_AIM_WALK_FORWARD, ANIM_AIM_WALK_BACK, ANIM_AIM_WALK_LEFT,
      ANIM_AIM_WALK_RIGHT>>

ClipNames == {animationsToLoad[i] : i \in 1..Len(animationsToLoad)}

None == "none"
ModelFile == "archer.glb"

----------------------------------------------------------------------------
(* Bounds of the model *)

\* pending setTimeout callbacks: a right click that would schedule one more
\* is not taken
MaxTimers == 2
\* the ground area walked, |x.r| + |x.q| + |z.r| + |z.q| in hundredths, in
\* the runs that follow the animation state
MaxCoord == 10
\* the same in the runs that follow the movement
MaxCoordMove == 20
\* clips whose request ends without an animation group, in the runs that
\* follow the asset loading
MaxFailures == 1
\* clock step, a divisor of both delays
TimeUnit == RecoilDelay \div 2

----------------------------------------------------------------------------
(* InputManager *)

\* String.prototype.toLowerCase on the key strings the model delivers or
\* asks about
toLowerCase(key) ==
    CASE key = "W" -> "w"
      [] key = "A" -> "a"
      [] key = "S" -> "s"
      [] key = "D" -> "d"
      [] key = "X" -> "x"
      [] key = "Constructor" -> "constructor"
      [] key = "toString" -> "tostring"
      [] OTHER -> key

\* this.keys is an object literal ({}), so a property it does not own is
\* read from Object.prototype: of the strings above, these name a method
\* there (a function, which !! turns into true)
ObjectPrototype == {"constructor", "toString"}

\* (mutant) the press is stored under the key string as delivered
keydownCaseSensitive(key) ==
    [k \in DOMAIN keys \cup {key} |-> IF k = key THEN TRUE ELSE keys[k]]

\* keydown listener: this.keys[e.key.toLowerCase()] = true
keydown(key) ==
    [k \in DOMAIN keys \cup {toLowerCase(key)} |->
        IF k = toLowerCase(key) THEN TRUE ELSE keys[k]]

\* keyup listener: this.keys[e.key.toLowerCase()] = false
keyup(key) ==
    [k \in DOMAIN keys \cup {toLowerCase(key)} |->
        IF k = toLowerCase(key) THEN FALSE ELSE keys[k]]

\* !!this.keys[key.toLowerCase()]: the own entry if there is one, else the
\* inherited property, else undefined
isKeyDown(key) ==
    IF toLowerCase(key) \in DOMAIN keys THEN keys[toLowerCase(key)]
    ELSE toLowerCase(key) \in ObjectPrototype

Vector3(x, y, z) == [x |-> x, y |-> y, z |-> z, s2 |-> 1]

\* the square of Vector3.length(), times v.s2
LengthSq(v) == v.x * v.x + v.y * v.y + v.z * v.z

\* Vector3.length() > 0
LengthPositive(v) == LengthSq(v) > 0

\* Vector3.normalize(): every component divided by length(), so
\* (x, y, z) / sqrt(s2) becomes (x, y, z) / sqrt(x^2 + y^2 + z^2).
\* s2 = 0 afterwards is a division by zero: the components are NaN.
normalize(v) == [v EXCEPT !.s2 = LengthSq(v)]

\* (mutant) the length guard is dropped: the zero vector is normalized too
getMovementDirectionNoGuard ==
    LET z1 == IF isKeyDown("w") THEN 1 ELSE 0
        z2 == IF isKeyDown("s") THEN z1 - 1 ELSE z1
        x1 == IF isKeyDown("a") THEN 0 - 1 ELSE 0
        x2 == IF isKeyDown("d") THEN x1 + 1 ELSE x1
    IN  normalize(Vector3(x2, 0, z2))

getMovementDirection ==
    LET z1 == IF isKeyDown("w") THEN 1 ELSE 0
        z2 == IF isKeyDown("s") THEN z1 - 1 ELSE z1
        x1 == IF isKeyDown("a") THEN 0 - 1 ELSE 0
        x2 == IF isKeyDown("d") THEN x1 + 1 ELSE x1
        direction == Vector3(x2, 0, z2)
    IN  IF LengthPositive(direction) THEN normalize(direction) ELSE direction

----------------------------------------------------------------------------
(* BaseCharacter *)

Coord(r, q) == [r |-> r, q |-> q]
Zero == Coord(0, 0)

\* component * speed, for a component c / sqrt(s2).  The directions
\* getMovementDirection returns have s2 = 1 or s2 = 2.
Times(c, s2, speed) ==
    IF s2 = 2 THEN Coord(0, c * speed) ELSE Coord(c * speed, 0)

Plus(a, b) == Coord(a.r + b.r, a.q + b.q)

\* (mutant) the forward axis is moved by the strafe component
moveStrafeTwice(pos, direction, speed) ==
    IF LengthPositive(direction)
    THEN [pos EXCEPT
            !.x = Plus(pos.x, Times(direction.x, direction.s2, speed)),
            !.z = Plus(pos.z, Times(direction.x, direction.s2, speed))]
    ELSE pos

\* (mutant) the character stands still until its model is loaded
moveNeedsModel(pos, direction, speed) ==
    IF modelLoaded /\ LengthPositive(direction)
    THEN [pos EXCEPT
            !.x = Plus(pos.x, Times(direction.x, direction.s2, speed)),
            !.z = Plus(pos.z, Times(direction.z, direction.s2, speed))]
    ELSE pos

\* BaseCharacter.move, on the position of this.mesh
move(pos, direction, speed) ==
    IF LengthPositive(direction)
    THEN [pos EXCEPT
            !.x = Plus(pos.x, Times(direction.x, direction.s2, speed)),
            !.z = Plus(pos.z, Times(direction.z, direction.s2, speed))]
    ELSE pos

----------------------------------------------------------------------------
(* Archer *)

NoEffect == << >>
Stop(name) == [op |-> "stop", clip |-> name, loop |-> FALSE]
Start(name, loop) == [op |-> "start", clip |-> name, loop |-> loop]

\* (mutant) a clip that is not loaded becomes the current clip all the same
playAnimationUnchecked(anims, cur, animationName, loop) ==
    IF ~modelLoaded THEN [cur |-> cur, fx |-> NoEffect]
    ELSE IF cur # None /\ cur = animationName THEN [cur |-> cur, fx |-> NoEffect]
    ELSE [cur |-> animationName,
          fx  |-> (IF cur # None THEN <<Stop(cur)>> ELSE NoEffect)
                  \o <<Start(animationName, loop)>>]

\* (mutant) the clip that is already playing is stopped and started again
playAnimationRestarts(anims, cur, animationName, loop) ==
    IF ~modelLoaded THEN [cur |-> cur, fx |-> NoEffect]
    ELSE IF animationName \notin anims THEN [cur |-> cur, fx |-> NoEffect]
    ELSE [cur |-> animationName,
          fx  |-> (IF cur # None THEN <<Stop(cur)>> ELSE NoEffect)
                  \o <<Start(animationName, loop)>>]

\* Archer.playAnimation, run with `anims` as this.animations and `cur` as
\* this.currentAnimation: the new this.currentAnimation and the
\* AnimationGroup calls made, in order
playAnimation(anims, cur, animationName, loop) ==
    IF ~modelLoaded THEN [cur |-> cur, fx |-> NoEffect]
    ELSE IF animationName \notin anims THEN [cur |-> cur, fx |-> NoEffect]
    ELSE IF cur # None /\ cur = animationName THEN [cur |-> cur, fx |-> NoEffect]
    ELSE [cur |-> animationName,
          fx  |-> (IF cur # None THEN <<Stop(cur)>> ELSE NoEffect)
                  \o <<Start(animationName, loop)>>]

\* (mutant) update leaves moveSpeed as the previous tick set it
UpdateMoveSpeedStale == moveSpeed

\* (mutant) the two speeds are exchanged
UpdateMoveSpeedSwapped == IF isAiming THEN NormalSpeed ELSE AimSpeed

\* Archer.update, first statement: the speed this tick moves with
UpdateMoveSpeed == IF isAiming THEN AimSpeed ELSE NormalSpeed

\* (mutant) the idle clip is selected whenever the archer is not aiming,
\* moving or not
UpdateAnimationCallIdleWhileMoving ==
    LET direction == getMovementDirection
    IN  IF modelLoaded /\ animations # {}
        THEN IF isAiming
             THEN IF direction.z > 0 THEN ANIM_AIM_WALK_FORWARD
                  ELSE IF direction.z < 0 THEN ANIM_AIM_WALK_BACK
                  ELSE IF direction.x < 0 THEN ANIM_AIM_WALK_LEFT
                  ELSE IF direction.x > 0 THEN ANIM_AIM_WALK_RIGHT
                  ELSE IF currentAnimation # ANIM_AIM_OVERDRAW
                       THEN ANIM_AIM_OVERDRAW
                       ELSE None
             ELSE IF currentAnimation # ANIM_IDLE
                  THEN ANIM_IDLE
                  ELSE None
        ELSE None

\* (mutant) the strafe axis is tested before the forward axis
UpdateAnimationCallStrafeFirst ==
    LET direction == getMovementDirection
        isMoving == LengthPositive(direction)
    IN  IF modelLoaded /\ animations # {}
        THEN IF isAiming
             THEN IF direction.x < 0 THEN ANIM_AIM_WALK_LEFT
                  ELSE IF direction.x > 0 THEN ANIM_AIM_WALK_RIGHT
                  ELSE IF direction.z > 0 THEN ANIM_AIM_WALK_FORWARD
                  ELSE IF direction.z < 0 THEN ANIM_AIM_WALK_BACK
                  ELSE IF currentAnimation # ANIM_AIM_OVERDRAW
                       THEN ANIM_AIM_OVERDRAW
                       ELSE None
             ELSE IF ~isMoving /\ currentAnimation # ANIM_IDLE
                  THEN ANIM_IDLE
                  ELSE None
        ELSE None

\* (mutant) the tick selects no clip while the archer is not aiming
UpdateAnimationCallNoIdle ==
    LET direction == getMovementDirection
    IN  IF modelLoaded /\ animations # {}
        THEN IF isAiming
             THEN IF direction.z > 0 THEN ANIM_AIM_WALK_FORWARD
                  ELSE IF direction.z < 0 THEN ANIM_AIM_WALK_BACK
                  ELSE IF direction.x < 0 THEN ANIM_AIM_WALK_LEFT
                  ELSE IF direction.x > 0 THEN ANIM_AIM_WALK_RIGHT
                  ELSE IF currentAnimation # ANIM_AIM_OVERDRAW
                       THEN ANIM_AIM_OVERDRAW
                       ELSE None
             ELSE None
        ELSE None

\* Archer.update, the animation block: the clip it passes to playAnimation,
\* None when it makes no call
UpdateAnimationCall ==
    LET direction == getMovementDirection
        isMoving == LengthPositive(direction)
    IN  IF modelLoaded /\ animations # {}
        THEN IF isAiming
             THEN IF direction.z > 0 THEN ANIM_AIM_WALK_FORWARD
                  ELSE IF direction.z < 0 THEN ANIM_AIM_WALK_BACK
                  ELSE IF direction.x < 0 THEN ANIM_AIM_WALK_LEFT
                  ELSE IF direction.x > 0 THEN ANIM_AIM_WALK_RIGHT
                  ELSE IF currentAnimation # ANIM_AIM_OVERDRAW
                       THEN ANIM_AIM_OVERDRAW
                       ELSE None
             ELSE IF ~isMoving /\ currentAnimation # ANIM_IDLE
                  THEN ANIM_IDLE
                  ELSE None
        ELSE None

\* what Archer.update does to the clip, in the current state
UpdatePlay ==
    IF UpdateAnimationCall = None
    THEN [cur |-> currentAnimation, fx |-> NoEffect]
    ELSE playAnimation(animations, currentAnimation, UpdateAnimationCall, TRUE)

\* Archer.onRightClick with this.isAiming already flipped to `aiming`:
\* does it take the animation branch (and so schedule a timer)?
RightClickAnimates(aiming) ==
    modelLoaded /\ (IF aiming THEN ANIM_DRAW_ARROW ELSE ANIM_AIM_RECOIL) \in animations

\* (mutant) the right click that leaves Aiming starts no clip
RightClickPlayDrawOnly(aiming) ==
    IF RightClickAnimates(aiming) /\ aiming
    THEN playAnimation(animations, currentAnimation, ANIM_DRAW_ARROW, FALSE)
    ELSE [cur |-> currentAnimation, fx |-> NoEffect]

RightClickPlay(aiming) ==
    IF RightClickAnimates(aiming)
    THEN playAnimation(animations, currentAnimation,
                       IF aiming THEN ANIM_DRAW_ARROW ELSE ANIM_AIM_RECOIL, FALSE)
    ELSE [cur |-> currentAnimation, fx |-> NoEffect]

Timer(kind, delay) == [kind |-> kind, left |-> delay, stale |-> FALSE]

MarkStale(ts) == [i \in 1..Len(ts) |-> [ts[i] EXCEPT !.stale = TRUE]]

\* (mutant) the draw callback does not look at isAiming
DrawTimerCallbackUnguarded ==
    IF ANIM_AIM_OVERDRAW \in animations
    THEN playAnimation(animations, currentAnimation, ANIM_AIM_OVERDRAW, TRUE)
    ELSE [cur |-> currentAnimation, fx |-> NoEffect]

\* (mutant) the recoil callback does not look at isAiming
RecoilTimerCallbackUnguarded ==
    IF ANIM_IDLE \in animations
    THEN playAnimation(animations, currentAnimation, ANIM_IDLE, TRUE)
    ELSE [cur |-> currentAnimation, fx |-> NoEffect]

\* the setTimeout callbacks of onRightClick, run with the state as it is
\* when they fire
DrawTimerCallback ==
    IF isAiming /\ ANIM_AIM_OVERDRAW \in animations
    THEN playAnimation(animations, currentAnimation, ANIM_AIM_OVERDRAW, TRUE)
    ELSE [cur |-> currentAnimation, fx |-> NoEffect]

RecoilTimerCallback ==
    IF ~isAiming /\ ANIM_IDLE \in animations
    THEN playAnimation(animations, currentAnimation, ANIM_IDLE, TRUE)
    ELSE [cur |-> currentAnimation, fx |-> NoEffect]

\* (mutant) the callback acts on the value isAiming had when it was
\* scheduled instead of reading it when it fires
TimerCallbackCaptured(kind) ==
    IF kind = "draw"
    THEN IF ANIM_AIM_OVERDRAW \in animations
         THEN playAnimation(animations, currentAnimation, ANIM_AIM_OVERDRAW, TRUE)
         ELSE [cur |-> currentAnimation, fx |-> NoEffect]
    ELSE IF ANIM_IDLE \in animations
         THEN playAnimation(animations, currentAnimation, ANIM_IDLE, TRUE)
         ELSE [cur |-> currentAnimation, fx |-> NoEffect]

TimerCallback(kind) ==
    IF kind = "draw" THEN DrawTimerCallback ELSE RecoilTimerCallback

----------------------------------------------------------------------------
(* Operations *)

\* window 'keydown' event
KeyDown(key) ==
    /\ keys' = keydown(key)
    /\ UNCHANGED <<isAiming, moveSpeed, modelLoaded, animations, currentAnimation,
                   position, scalingY, pending, loadedCount, timers>>

\* window 'keyup' event
KeyUp(key) ==
    /\ keys' = keyup(key)
    /\ UNCHANGED <<isAiming, moveSpeed, modelLoaded, animations, currentAnimation,
                   position, scalingY, pending, loadedCount, timers>>

\* one render tick: Game.startRenderLoop calls Archer.update(inputManager)
Update ==
    /\ moveSpeed' = UpdateMoveSpeed
    /\ position' = move(position, getMovementDirection, moveSpeed')
    /\ currentAnimation' = UpdatePlay.cur
    /\ UNCHANGED <<keys, isAiming, modelLoaded, animations, scalingY, pending,
                   loadedCount, timers>>

\* (mutant) the right click also sets the speed of the state it enters
OnRightClickSetsSpeed ==
    /\ RightClickAnimates(~isAiming) => Len(timers) < MaxTimers
    /\ isAiming' = ~isAiming
    /\ moveSpeed' = (IF isAiming' THEN AimSpeed ELSE NormalSpeed)
    /\ currentAnimation' = RightClickPlay(isAiming').cur
    /\ timers' = IF RightClickAnimates(isAiming')
                 THEN Append(MarkStale(timers),
                             IF isAiming' THEN Timer("draw", DrawDelay)
                                          ELSE Timer("recoil", RecoilDelay))
                 ELSE MarkStale(timers)
    /\ scalingY' = IF RightClickAnimates(isAiming') THEN scalingY
                   ELSE IF isAiming' THEN ScaleAim ELSE ScaleNormal
    /\ UNCHANGED <<keys, modelLoaded, animations, position, pending, loadedCount>>

\* right mouse button: Game.setupRightClickHandler calls Archer.onRightClick
OnRightClick ==
    /\ RightClickAnimates(~isAiming) => Len(timers) < MaxTimers
    /\ isAiming' = ~isAiming
    /\ currentAnimation' = RightClickPlay(isAiming').cur
    /\ timers' = IF RightClickAnimates(isAiming')
                 THEN Append(MarkStale(timers),
                             IF isAiming' THEN Timer("draw", DrawDelay)
                                          ELSE Timer("recoil", RecoilDelay))
                 ELSE MarkStale(timers)
    /\ scalingY' = IF RightClickAnimates(isAiming') THEN scalingY
                   ELSE IF isAiming' THEN ScaleAim ELSE ScaleNormal
    /\ UNCHANGED <<keys, moveSpeed, modelLoaded, animations, position, pending,
                   loadedCount>>

Due == {i \in 1..Len(timers) : timers[i].left = 0}

FirstDue == CHOOSE i \in Due : \A j \in Due : i <= j

Remove(seq, i) == SubSeq(seq, 1, i - 1) \o SubSeq(seq, i + 1, Len(seq))

\* (mutant) the draw callback ends the aiming when it fires
TimerFireAutoExit ==
    /\ Due # {}
    /\ currentAnimation' = TimerCallback(timers[FirstDue].kind).cur
    /\ timers' = Remove(timers, FirstDue)
    /\ isAiming' = (isAiming /\ timers[FirstDue].kind # "draw")
    /\ UNCHANGED <<keys, moveSpeed, modelLoaded, animations, position,
                   scalingY, pending, loadedCount>>

\* (mutant) the callback is scheduled again when it has run (setInterval)
TimerFireRearms ==
    /\ Due # {}
    /\ currentAnimation' = TimerCallback(timers[FirstDue].kind).cur
    /\ timers' = Append(Remove(timers, FirstDue),
                        [timers[FirstDue] EXCEPT
                            !.left = IF timers[FirstDue].kind = "draw"
                                     THEN DrawDelay ELSE RecoilDelay])
    /\ UNCHANGED <<keys, isAiming, moveSpeed, modelLoaded, animations, position,
                   scalingY, pending, loadedCount>>

\* the earliest-created due setTimeout callback runs
TimerFire ==
    /\ Due # {}
    /\ currentAnimation' = TimerCallback(timers[FirstDue].kind).cur
    /\ timers' = Remove(timers, FirstDue)
    /\ UNCHANGED <<keys, isAiming, moveSpeed, modelLoaded, animations, position,
                   scalingY, pending, loadedCount>>

\* TimeUnit milliseconds pass; a due callback runs before the clock moves on
Advance ==
    /\ timers # << >>
    /\ Due = {}
    /\ timers' = [i \in 1..Len(timers) |->
                    [timers[i] EXCEPT !.left = timers[i].left - TimeUnit]]
    /\ UNCHANGED <<keys, isAiming, moveSpeed, modelLoaded, animations,
                   currentAnimation, position, scalingY, pending, loadedCount>>

\* the position of this.mesh after construction (the archerParent mesh,
\* created at the origin) and of the imported root mesh (position.y is set
\* to 0; x and z are those of the file's root node, taken to be 0)
Origin == [x |-> Zero, y |-> 0, z |-> Zero]

\* ImportMesh success callback, meshes.length > 0: this.mesh becomes the
\* imported root mesh, then loadAnimations requests every clip
ModelLoadSuccess ==
    /\ ModelFile \in pending
    /\ position' = Origin
    /\ scalingY' = ScaleNormal
    /\ modelLoaded' = TRUE
    /\ pending' = ClipNames
    /\ loadedCount' = 0
    /\ UNCHANGED <<keys, isAiming, moveSpeed, animations, currentAnimation, timers>>

\* ImportMesh success callback with no mesh
ModelLoadEmpty ==
    /\ ModelFile \in pending
    /\ pending' = pending \ {ModelFile}
    /\ UNCHANGED <<keys, isAiming, moveSpeed, modelLoaded, animations,
                   currentAnimation, position, scalingY, loadedCount, timers>>

\* ImportMesh error callback
ModelLoadError ==
    /\ ModelFile \in pending
    /\ pending' = pending \ {ModelFile}
    /\ UNCHANGED <<keys, isAiming, moveSpeed, modelLoaded, animations,
                   currentAnimation, position, scalingY, loadedCount, timers>>

\* ImportAnimations success callback for one clip, with an animation group
AnimLoadSuccess(animName) ==
    /\ animName \in pending \cap ClipNames
    /\ animations' = animations \cup {animName}
    /\ loadedCount' = loadedCount + 1
    /\ LET first == IF animName = ANIM_IDLE /\ currentAnimation = None
                    THEN playAnimation(animations', currentAnimation, ANIM_IDLE, TRUE)
                    ELSE [cur |-> currentAnimation, fx |-> NoEffect]
           last  == IF loadedCount' = Len(animationsToLoad)
                    THEN playAnimation(animations', first.cur, ANIM_IDLE, TRUE)
                    ELSE first
       IN  currentAnimation' = last.cur
    /\ pending' = pending \ {animName}
    /\ UNCHANGED <<keys, isAiming, moveSpeed, modelLoaded, position, scalingY, timers>>

\* ImportAnimations success callback for a file without animation groups
AnimLoadEmpty(animName) ==
    /\ animName \in pending \cap ClipNames
    /\ pending' = pending \ {animName}
    /\ UNCHANGED <<keys, isAiming, moveSpeed, modelLoaded, animations,
                   currentAnimation, position, scalingY, loadedCount, timers>>

\* (mutant) a failed clip request marks the model as not loaded
AnimLoadErrorUnloads(animName) ==
    /\ animName \in pending \cap ClipNames
    /\ loadedCount' = loadedCount + 1
    /\ pending' = pending \ {animName}
    /\ modelLoaded' = FALSE
    /\ UNCHANGED <<keys, isAiming, moveSpeed, animations, currentAnimation,
                   position, scalingY, timers>>

\* ImportAnimations error callback
AnimLoadError(animName) ==
    /\ animName \in pending \cap ClipNames
    /\ loadedCount' = loadedCount + 1
    /\ pending' = pending \ {animName}
    /\ UNCHANGED <<keys, isAiming, moveSpeed, modelLoaded, animations,
                   currentAnimation, position, scalingY, timers>>

----------------------------------------------------------------------------
(* Specifications *)

\* the state after new Game(canvas)
Init ==
    /\ keys = << >>
    /\ isAiming = FALSE
    /\ moveSpeed = NormalSpeed
    /\ modelLoaded = FALSE
    /\ animations = {}
    /\ currentAnimation = None
    /\ position = Origin
    /\ scalingY = ScaleNormal
    /\ pending = {ModelFile}
    /\ loadedCount = 0
    /\ timers = << >>

Abs(n) == IF n < 0 THEN 0 - n ELSE n

\* the ground area a run walks: a tick that would leave it is not taken
Within(pos, m) ==
    Abs(pos.x.r) + Abs(pos.x.q) + Abs(pos.z.r) + Abs(pos.z.q) <= m

\* the key strings the keyboard events of the runs carry
MoveKeys == {"w", "a", "s", "d"}

KeyEvent == \E key \in MoveKeys : KeyDown(key) \/ KeyUp(key)

\* the clip whose callback runs next when callbacks run in request order
NextRequest ==
    {animationsToLoad[i] : i \in
        {i \in 1..Len(animationsToLoad) :
            /\ animationsToLoad[i] \in pending
            /\ \A j \in 1..(i - 1) : animationsToLoad[j] \notin pending}}

\* the requests that ended without a clip
Failures == Len(animationsToLoad) - Cardinality(pending) - Cardinality(animations)

\* The asset pipeline never delivers a clip: the model request fails or
\* stays pending, or the model loads and the clip requests end in errors.
NextDegraded ==
    \/ KeyEvent
    \/ Update /\ Within(position', MaxCoordMove)
    \/ OnRightClick
    \/ ModelLoadSuccess
    \/ ModelLoadEmpty
    \/ ModelLoadError
    \/ \E animName \in NextRequest : AnimLoadError(animName)

SpecDegraded == Init /\ [][NextDegraded]_vars

\* The model and all eight clips finished loading before the first input:
\* the last success callback left the idle clip playing.
InitLoaded ==
    /\ keys = << >>
    /\ isAiming = FALSE
    /\ moveSpeed = NormalSpeed
    /\ modelLoaded = TRUE
    /\ animations = ClipNames
    /\ currentAnimation = ANIM_IDLE
    /\ position = Origin
    /\ scalingY = ScaleNormal
    /\ pending = {}
    /\ loadedCount = Len(animationsToLoad)
    /\ timers = << >>

NextLoaded ==
    \/ KeyEvent
    \/ Update /\ Within(position', MaxCoord)
    \/ OnRightClick
    \/ TimerFire
    \/ Advance

SpecLoaded == InitLoaded /\ [][NextLoaded]_vars

\* The whole program from construction.  The keyboard delivers one key, and
\* the clip callbacks run in request order, at most MaxFailures of them
\* without a clip.
Next ==
    \/ KeyDown("w")
    \/ KeyUp("w")
    \/ Update /\ Within(position', MaxCoord)
    \/ OnRightClick
    \/ TimerFire
    \/ Advance
    \/ ModelLoadSuccess
    \/ ModelLoadEmpty
    \/ ModelLoadError
    \/ \E animName \in NextRequest : AnimLoadSuccess(animName)
    \/ \E animName \in NextRequest : Failures < MaxFailures /\ AnimLoadEmpty(animName)
    \/ \E animName \in NextRequest : Failures < MaxFailures /\ AnimLoadError(animName)

Spec == Init /\ [][Next]_vars

\* The keyboard side: key events in both cases, for two movement keys and a
\* key without a movement effect, with the ticks and right clicks that read
\* them, before any asset arrives.
InputKeys == {"w", "W", "s", "S", "x"}

NextInput ==
    \/ \E key \in InputKeys : KeyDown(key)
    \/ \E key \in InputKeys : KeyUp(key)
    \/ Update /\ Within(position', MaxCoord)
    \/ OnRightClick

SpecInput == Init /\ [][NextInput]_vars

\* A render tick of a run that goes on for ever: the position is followed
\* inside the ground area only.  A tick that would walk out of the area
\* does everything Archer.update does but the translation (nothing in the
\* program reads the position, so the other variables take the values they
\* take in the program).
UpdateAtEdge(m) ==
    /\ ~Within(move(position, getMovementDirection, UpdateMoveSpeed), m)
    /\ moveSpeed' = UpdateMoveSpeed
    /\ currentAnimation' = UpdatePlay.cur
    /\ UNCHANGED <<keys, isAiming, modelLoaded, animations, position, scalingY,
                   pending, loadedCount, timers>>

Tick(m) == (Update /\ Within(position', m)) \/ UpdateAtEdge(m)

NextFair ==
    \/ KeyDown("w")
    \/ KeyUp("w")
    \/ Update /\ Within(position', MaxCoord)
    \/ UpdateAtEdge(MaxCoord)
    \/ OnRightClick
    \/ TimerFire
    \/ Advance

\* Everything is loaded; the render loop keeps calling update
\* (Game.startRenderLoop), time keeps passing and a due setTimeout callback
\* is run.  Key events (of one movement key) and right clicks may stop at
\* any time.
SpecFair ==
    /\ InitLoaded
    /\ [][NextFair]_vars
    /\ WF_vars(Tick(MaxCoord))
    /\ WF_vars(TimerFire)
    /\ WF_vars(Advance)

----------------------------------------------------------------------------
(* Claims *)

Held(key) == IF isKeyDown(key) THEN 1 ELSE 0

\* C10: for every set of movement keys held, getMovementDirection is a
\* vector of length 0 or 1 and never NaN: its components are
\* forward = [w] - [s] and strafe = [d] - [a] (an opposite pair cancels),
\* it is the zero vector, returned as it is, exactly when both are 0, and
\* otherwise the raw vector divided by its length.
C10_DirectionUnitOrZero ==
    LET direction == getMovementDirection
        forward == Held("w") - Held("s")
        strafe == Held("d") - Held("a")
        rawSq == forward * forward + strafe * strafe
    IN  /\ direction.s2 # 0
        /\ direction.x = strafe /\ direction.z = forward /\ direction.y = 0
        /\ LengthSq(direction) = 0 \/ LengthSq(direction) = direction.s2
        /\ LengthSq(direction) = 0 <=> (forward = 0 /\ strafe = 0)
        /\ direction.s2 = IF rawSq = 0 THEN 1 ELSE rawSq

\* w, s and d held: the pair cancels and the strafe axis alone is left
C10_Witness ==
    /\ isKeyDown("w") /\ isKeyDown("s") /\ isKeyDown("d") /\ ~isKeyDown("a")
    /\ getMovementDirection = [x |-> 1, y |-> 0, z |-> 0, s2 |-> 1]

\* what a tick adds to a ground coordinate: component * speed
Step(c, s2, speed) ==
    IF s2 = 1 THEN [r |-> c * speed, q |-> 0] ELSE [r |-> 0, q |-> c * speed]

Moved(pos, direction, speed) ==
    IF direction.x = 0 /\ direction.z = 0
    THEN pos
    ELSE [x |-> [r |-> pos.x.r + Step(direction.x, direction.s2, speed).r,
                 q |-> pos.x.q + Step(direction.x, direction.s2, speed).q],
          y |-> pos.y,
          z |-> [r |-> pos.z.r + Step(direction.z, direction.s2, speed).r,
                 q |-> pos.z.q + Step(direction.z, direction.s2, speed).q]]

OnlyW == isKeyDown("w") /\ ~isKeyDown("s") /\ ~isKeyDown("a") /\ ~isKeyDown("d")

\* C8: a tick with direction d moves the position by d.x * moveSpeed on the
\* strafe axis and d.z * moveSpeed on the forward axis and leaves the
\* vertical coordinate alone; a zero direction leaves the position alone.
\* With only w held and not aiming, the forward coordinate grows by the
\* normal speed.
C8_Translation ==
    [][Update =>
        /\ position' = Moved(position, getMovementDirection, moveSpeed')
        /\ (OnlyW /\ ~isAiming) =>
              /\ position'.z.r = position.z.r + NormalSpeed
              /\ position'.z.q = position.z.q
              /\ position'.x = position.x
              /\ position'.y = position.y]_vars

\* a diagonal tick at the normal speed has run
C8_Witness ==
    /\ ~isAiming
    /\ isKeyDown("w") /\ isKeyDown("d") /\ ~isKeyDown("s") /\ ~isKeyDown("a")
    /\ position.x = [r |-> 0, q |-> NormalSpeed]
    /\ position.z = [r |-> 0, q |-> NormalSpeed]

\* C4: every tick moves with the aiming speed (0.05) if isAiming holds when
\* the tick starts and with the normal speed (0.1) otherwise, and the aiming
\* speed is the smaller one.
C4_TickSpeed ==
    [][Update =>
        LET speed == IF isAiming THEN AimSpeed ELSE NormalSpeed
        IN  /\ moveSpeed' = speed
            /\ position' = Moved(position, getMovementDirection, speed)
            /\ AimSpeed < NormalSpeed]_vars

\* the first tick after a right click has moved at the aiming speed
C4_Witness ==
    /\ isAiming /\ isKeyDown("w")
    /\ moveSpeed = AimSpeed
    /\ position.z = [r |-> AimSpeed, q |-> 0]

SpeedMatchesAim == moveSpeed = IF isAiming THEN AimSpeed ELSE NormalSpeed

\* C5 as claimed: moveSpeed matches isAiming in every reachable state
C5_Original == SpeedMatchesAim

\* C5, amended: moveSpeed matches isAiming after construction and after
\* every tick, and only onRightClick breaks the match.
C5_SpeedMatchesAfterTick ==
    /\ SpeedMatchesAim
    /\ [][(Update \/ (SpeedMatchesAim /\ isAiming' = isAiming)) => SpeedMatchesAim']_vars

\* a tick has run since the right click
C5_Witness == isAiming /\ moveSpeed = AimSpeed

Fired == timers[FirstDue]

MovingForward == getMovementDirection.z > 0

\* the second right click of C1 came less than RecoilDelay after the first:
\* the recoil callback of the first is not due yet, and no right click
\* followed the second
Reentered ==
    \E i \in 1..(Len(timers) - 1) :
        /\ timers[i].kind = "recoil" /\ timers[i].left > 0
        /\ timers[i + 1].kind = "draw" /\ ~timers[i + 1].stale

\* C1 as claimed: after leaving and re-entering Aiming within less than
\* 500ms the draw clip stays the current clip until the draw callback of
\* the second right click replaces it with aim-overdraw, 1000ms after that
\* click, and the recoil callback of the first right click does not bring
\* the idle clip.
C1_Original ==
    [][/\ Reentered' => currentAnimation' = ANIM_DRAW_ARROW
       /\ (TimerFire /\ Fired.kind = "recoil" /\ Fired.stale /\ isAiming)
             => currentAnimation' = currentAnimation
       /\ (TimerFire /\ Fired.kind = "draw" /\ ~Fired.stale)
             => currentAnimation' = ANIM_AIM_OVERDRAW]_vars

\* C2 as claimed: a delayed transition scheduled by a right click that was
\* followed by one or more right clicks leaves the current clip alone when
\* it fires.
C2_Original ==
    [][(TimerFire /\ Fired.stale) => currentAnimation' = currentAnimation]_vars

\* C3 as claimed: with w held, a right click from the non-aiming state sets
\* isAiming and starts the draw clip without looping, and the draw callback
\* of that click, 1000ms later and with no right click since, makes
\* aim-walk-forward the current clip, or aim-overdraw when the archer no
\* longer moves forward.
C3_Original ==
    [][/\ (OnRightClick /\ ~isAiming /\ MovingForward)
             => /\ isAiming'
                /\ currentAnimation' = ANIM_DRAW_ARROW
                /\ RightClickPlay(TRUE).fx # NoEffect
                /\ RightClickPlay(TRUE).fx[Len(RightClickPlay(TRUE).fx)]
                      = Start(ANIM_DRAW_ARROW, FALSE)
       /\ (TimerFire /\ Fired.kind = "draw" /\ ~Fired.stale)
             => currentAnimation' = IF MovingForward THEN ANIM_AIM_WALK_FORWARD
                                                     ELSE ANIM_AIM_OVERDRAW]_vars

\* playAnimation with the name of the current clip makes no call
SameClipNoOp ==
    \A name \in ClipNames, loop \in BOOLEAN :
        currentAnimation = name =>
            playAnimation(animations, currentAnimation, name, loop)
                = [cur |-> name, fx |-> NoEffect]

\* C6: a tick that follows a tick, with the keys, the aiming flag and the
\* assets as they were, starts and stops no clip, and playAnimation with the
\* name of the current clip neither stops nor restarts it.
C6_Idempotent ==
    /\ SameClipNoOp
    /\ [][/\ SameClipNoOp'
          /\ Update => UpdatePlay'.fx = NoEffect]_vars

\* a tick has selected aim-walk-forward and the next tick selects it again
C6_Witness ==
    /\ isAiming /\ isKeyDown("w")
    /\ currentAnimation = ANIM_AIM_WALK_FORWARD
    /\ UpdateAnimationCall = ANIM_AIM_WALK_FORWARD
    /\ position.z.r = AimSpeed

\* no handler starts a clip in the current state and no delayed transition
\* is pending
NoClipStart ==
    /\ currentAnimation = None
    /\ UpdatePlay.fx = NoEffect
    /\ RightClickPlay(TRUE).fx = NoEffect
    /\ RightClickPlay(FALSE).fx = NoEffect
    /\ ~RightClickAnimates(TRUE) /\ ~RightClickAnimates(FALSE)
    /\ timers = << >>

\* C7: while the model is not loaded or no clip is available, no clip is
\* started and currentAnimation stays none, every tick with a non-zero
\* direction moves the position and every right click flips isAiming.
C7_Degraded ==
    /\ (~modelLoaded \/ animations = {}) => NoClipStart
    /\ [][/\ (~modelLoaded' \/ animations' = {}) => NoClipStart'
          /\ Update =>
                /\ position' = Moved(position, getMovementDirection, moveSpeed')
                /\ LengthPositive(getMovementDirection) => position' # position
          /\ OnRightClick => isAiming' = ~isAiming]_vars

\* before any asset arrives: a right click and a tick at the aiming speed
C7_Witness ==
    /\ ~modelLoaded /\ animations = {} /\ currentAnimation = None
    /\ isAiming /\ scalingY = ScaleAim
    /\ position.z = [r |-> AimSpeed, q |-> 0]

\* C9: a tick with isAiming false and a non-zero direction starts no clip
\* and leaves the current clip as it is; with w held and the idle clip
\* current, the clip stays idle.
C9_NoClipWhileWalking ==
    [][(Update /\ ~isAiming /\ LengthPositive(getMovementDirection))
          => /\ UpdatePlay.fx = NoEffect
             /\ currentAnimation' = currentAnimation]_vars

\* the archer has walked forward, not aiming, with the idle clip playing
C9_Witness ==
    /\ modelLoaded /\ ~isAiming /\ isKeyDown("w")
    /\ currentAnimation = ANIM_IDLE
    /\ moveSpeed = NormalSpeed
    /\ position.z = [r |-> NormalSpeed, q |-> 0]

\* the key strings isKeyDown is asked about
ProbeKeys ==
    InputKeys \cup {"a", "A", "d", "D", "X", "q", "constructor", "Constructor",
                    "toString"}

\* C11 as claimed: isKeyDown is false for every key string that no key
\* event has carried, in either case.
C11_Original ==
    \A key \in ProbeKeys :
        toLowerCase(key) \notin DOMAIN keys => ~isKeyDown(key)

\* C18 as claimed: for every key string, isKeyDown is true exactly when the
\* last key event of that key was a press (the handlers record the last
\* event of a key in its entry).
C18_Original ==
    \A key \in ProbeKeys :
        isKeyDown(key) <=>
            (toLowerCase(key) \in DOMAIN keys /\ keys[toLowerCase(key)])

\* the part of C18 about the writers: a step other than a key event leaves
\* every entry as it is, a press sets the entry of its key to true and a
\* release sets it to false, and no other entry changes
C18_Writers ==
    [][/\ (Update \/ OnRightClick \/ TimerFire \/ Advance) => keys' = keys
       /\ keys' # keys =>
             \E key \in MoveKeys :
                 /\ DOMAIN keys' = DOMAIN keys \cup {key}
                 /\ \A k \in DOMAIN keys : k # key => keys'[k] = keys[k]
                 /\ \/ KeyDown(key) /\ keys'[key]
                    \/ KeyUp(key) /\ ~keys'[key]]_vars

\* C19: a key event carrying "w" or "W" writes the one entry "w": after a
\* press in either case isKeyDown is true for both strings and the forward
\* component counts the key, and after a release in either case isKeyDown
\* is false for both, whatever the case of the press before it.
C19_MixedCase ==
    [][\A key \in {"w", "W"} :
          /\ KeyDown(key) =>
                /\ isKeyDown("w")' /\ isKeyDown("W")'
                /\ getMovementDirection'.z = 1 - Held("s")'
                /\ "W" \notin DOMAIN keys'
          /\ KeyUp(key) =>
                /\ ~isKeyDown("w")' /\ ~isKeyDown("W")'
                /\ getMovementDirection'.z = 0 - Held("s")'
                /\ "W" \notin DOMAIN keys']_vars

\* w was pressed, a tick walked forward, and w was released
C19_Witness ==
    /\ "w" \in DOMAIN keys /\ ~keys["w"] /\ "W" \notin DOMAIN keys
    /\ ~isKeyDown("W") /\ ~isKeyDown("s")
    /\ position.z = [r |-> NormalSpeed, q |-> 0]

\* a callback of the asset loader
LoadCallback ==
    \/ ModelLoadSuccess \/ ModelLoadEmpty \/ ModelLoadError
    \/ \E animName \in ClipNames :
          AnimLoadSuccess(animName) \/ AnimLoadEmpty(animName) \/ AnimLoadError(animName)

\* C12: every onRightClick negates isAiming (so two of them restore it),
\* every step that changes isAiming is an onRightClick, and ticks, timer
\* callbacks, the passing of time, key events and load callbacks leave it
\* as it is.
C12_OnlyRightClickFlips ==
    [][/\ OnRightClick => isAiming' = ~isAiming
       /\ isAiming' # isAiming => OnRightClick
       /\ (Update \/ TimerFire \/ Advance \/ KeyEvent \/ LoadCallback)
             => isAiming' = isAiming]_vars

\* still aiming after the draw callback fired, a tick ran and every load
\* callback returned
C12_Witness ==
    /\ isAiming /\ timers = << >> /\ pending = {}
    /\ currentAnimation = ANIM_AIM_OVERDRAW
    /\ moveSpeed = AimSpeed

\* the clip the aiming tick is to select for the keys held
AimClip ==
    LET forward == Held("w") - Held("s")
        strafe == Held("d") - Held("a")
    IN  IF forward > 0 THEN ANIM_AIM_WALK_FORWARD
        ELSE IF forward < 0 THEN ANIM_AIM_WALK_BACK
        ELSE IF strafe < 0 THEN ANIM_AIM_WALK_LEFT
        ELSE IF strafe > 0 THEN ANIM_AIM_WALK_RIGHT
        ELSE ANIM_AIM_OVERDRAW

\* C13: with the model and all clips loaded, after a tick that starts with
\* isAiming true the current clip is aim-walk-forward if the forward
\* component is positive, else aim-walk-back if it is negative, else
\* aim-walk-left if the strafe component is negative, else aim-walk-right if
\* it is positive, else aim-overdraw.
C13_AimPriority ==
    [][(Update /\ isAiming /\ modelLoaded /\ animations = ClipNames)
          => currentAnimation' = AimClip]_vars

\* w, s and a held while aiming: the forward pair cancels and the tick has
\* selected aim-walk-left
C13_Witness ==
    /\ isAiming /\ moveSpeed = AimSpeed
    /\ isKeyDown("w") /\ isKeyDown("s") /\ isKeyDown("a") /\ ~isKeyDown("d")
    /\ currentAnimation = ANIM_AIM_WALK_LEFT

\* C14: after a tick that starts with isAiming false, a zero direction, the
\* model loaded and the idle clip available, the current clip is idle.
C14_IdleWhenStationary ==
    [][(/\ Update
        /\ ~isAiming
        /\ ~LengthPositive(getMovementDirection)
        /\ modelLoaded
        /\ ANIM_IDLE \in animations)
          => currentAnimation' = ANIM_IDLE]_vars

\* a right click left Aiming and started recoil, and a tick selected idle
\* before any time passed; clips are still being loaded
C14_Witness ==
    /\ ~isAiming /\ pending # {}
    /\ currentAnimation = ANIM_IDLE
    /\ timers # << >>
    /\ timers[Len(timers)] = Timer("recoil", RecoilDelay)

\* the one-shot clip of a right click that ends with isAiming = aiming
ToggleClip(aiming) == IF aiming THEN ANIM_DRAW_ARROW ELSE ANIM_AIM_RECOIL

\* C15 as claimed: every right click made with the model and its one-shot
\* clip loaded (draw when it enters Aiming, recoil when it leaves) starts
\* that clip, without looping, and starts no other, in the step that flips
\* the flag, and the clip is the current clip after the step.
C15_Original ==
    [][(OnRightClick /\ modelLoaded /\ ToggleClip(~isAiming) \in animations)
          => LET fx == RightClickPlay(~isAiming).fx
             IN  /\ isAiming' = ~isAiming
                 /\ Cardinality({i \in 1..Len(fx) : fx[i].op = "start"}) = 1
                 /\ fx # NoEffect
                 /\ fx[Len(fx)] = Start(ToggleClip(~isAiming), FALSE)
                 /\ currentAnimation' = ToggleClip(~isAiming)]_vars

\* every variable but the clip and the timers
AllButClip ==
    <<keys, isAiming, moveSpeed, modelLoaded, animations, position, scalingY,
      pending, loadedCount>>

\* the clip a delayed transition selects, looping, unless it is current
Selects(play, clip) ==
    /\ play.cur = clip
    /\ play.fx = NoEffect \/ play.fx[Len(play.fx)] = Start(clip, TRUE)

\* C16: a right click that enters Aiming with the draw clip loaded schedules
\* a callback due DrawDelay (1000ms) later; when it runs with isAiming true
\* and aim-overdraw loaded, aim-overdraw becomes the current clip, looping;
\* when it runs with isAiming false it changes nothing.
C16_DrawTransition ==
    [][/\ (OnRightClick /\ ~isAiming /\ modelLoaded /\ ANIM_DRAW_ARROW \in animations)
             => /\ timers' # << >>
                /\ timers'[Len(timers')] = Timer("draw", DrawDelay)
                /\ DrawDelay = 1000
       /\ (TimerFire /\ Fired.kind = "draw")
             => /\ Fired.left = 0
                /\ AllButClip' = AllButClip
                /\ (isAiming /\ ANIM_AIM_OVERDRAW \in animations)
                      => /\ currentAnimation' = ANIM_AIM_OVERDRAW
                         /\ Selects(DrawTimerCallback, ANIM_AIM_OVERDRAW)
                /\ ~isAiming => currentAnimation' = currentAnimation]_vars

\* the draw callback ran while aiming, before any tick followed the right
\* click (the speed is still the normal one)
C16_Witness ==
    /\ isAiming /\ moveSpeed = NormalSpeed
    /\ currentAnimation = ANIM_AIM_OVERDRAW
    /\ timers = << >>

\* C17: a right click that leaves Aiming with the recoil clip loaded
\* schedules a callback due RecoilDelay (500ms) later; when it runs with
\* isAiming false and idle loaded, idle becomes the current clip, looping;
\* when it runs with isAiming true it changes nothing.
C17_RecoilTransition ==
    [][/\ (OnRightClick /\ isAiming /\ modelLoaded /\ ANIM_AIM_RECOIL \in animations)
             => /\ timers' # << >>
                /\ timers'[Len(timers')] = Timer("recoil", RecoilDelay)
                /\ RecoilDelay = 500
       /\ (TimerFire /\ Fired.kind = "recoil")
             => /\ Fired.left = 0
                /\ AllButClip' = AllButClip
                /\ (~isAiming /\ ANIM_IDLE \in animations)
                      => /\ currentAnimation' = ANIM_IDLE
                         /\ Selects(RecoilTimerCallback, ANIM_IDLE)
                /\ isAiming => currentAnimation' = currentAnimation]_vars

\* the recoil callback ran after Aiming was left, before any tick followed
\* the right click (the speed is still the aiming one)
C17_Witness ==
    /\ ~isAiming /\ moveSpeed = AimSpeed
    /\ currentAnimation = ANIM_IDLE
    /\ timers = << >>

\* C20: no step takes modelLoaded from true to false.
C20_ModelLoadedMonotonic == [][modelLoaded => modelLoaded']_vars

\* the model is loaded and, since then, a clip request failed, a right
\* click was made and its callback ran
C20_Witness ==
    /\ modelLoaded /\ pending = {} /\ animations # ClipNames
    /\ isAiming /\ timers = << >> /\ currentAnimation = ANIM_AIM_OVERDRAW

\* currentAnimation is none or the name of a clip that is loaded
CurrentClipLoaded ==
    currentAnimation = None \/ currentAnimation \in animations \cap ClipNames

\* C21 as claimed: currentAnimation is none or a loaded clip, and it is none
\* only while the model is not loaded or no clip has loaded.
C21_Original ==
    /\ CurrentClipLoaded
    /\ currentAnimation = None => (~modelLoaded \/ animations = {})

\* C21, amended: currentAnimation is none or a loaded clip; it is none
\* while the model is not loaded or no clip has loaded; and once it names a
\* clip it never returns to none.
C21_CurrentClip ==
    /\ CurrentClipLoaded
    /\ (~modelLoaded \/ animations = {}) => currentAnimation = None
    /\ [][/\ CurrentClipLoaded'
          /\ (~modelLoaded' \/ animations' = {}) => currentAnimation' = None
          /\ currentAnimation # None => currentAnimation' # None]_vars

\* every request returned, the idle clip is missing, and the first clip was
\* started by a right click or a tick
C21_Witness ==
    /\ modelLoaded /\ pending = {} /\ ANIM_IDLE \notin animations
    /\ currentAnimation = ANIM_AIM_OVERDRAW

\* a key event writes nothing but the key map
KeyEventWritesKeys ==
    KeyEvent => UNCHANGED <<isAiming, moveSpeed, modelLoaded, animations,
                            currentAnimation, position, scalingY, pending,
                            loadedCount, timers>>

SetByToggle(kind) == kind = "draw"
TimerClip(kind) == IF kind = "draw" THEN ANIM_AIM_OVERDRAW ELSE ANIM_IDLE

\* C23: a delayed callback that fires while isAiming differs from the value
\* its right click set changes nothing; one that fires while isAiming
\* equals that value selects its clip (when loaded), however many right
\* clicks were made in between: the flag is read when the callback fires.
C23_Revalidation ==
    [][TimerFire =>
          /\ AllButClip' = AllButClip
          /\ isAiming # SetByToggle(Fired.kind) =>
                /\ currentAnimation' = currentAnimation
                /\ TimerCallback(Fired.kind).fx = NoEffect
          /\ (isAiming = SetByToggle(Fired.kind) /\ TimerClip(Fired.kind) \in animations)
                => currentAnimation' = TimerClip(Fired.kind)
          /\ TimerCallback(Fired.kind).fx # NoEffect
                => isAiming = SetByToggle(Fired.kind)]_vars

\* the draw callback of an earlier right click has selected aim-overdraw
\* while the callback of the last right click is still pending and no tick
\* has run since that click
C23_Witness ==
    /\ isAiming /\ moveSpeed = NormalSpeed
    /\ currentAnimation = ANIM_AIM_OVERDRAW
    /\ Len(timers) = 1 /\ timers[1].kind = "draw" /\ ~timers[1].stale

\* the callback of the last right click is pending and not yet due, and the
\* one-shot clip that click started is the current clip
InDelayWindow ==
    /\ timers # << >>
    /\ ~timers[Len(timers)].stale
    /\ timers[Len(timers)].left > 0
    /\ timers[Len(timers)].kind = (IF isAiming THEN "draw" ELSE "recoil")
    /\ currentAnimation = ToggleClip(isAiming)

\* C24 as claimed: with no right click since the one that started it, the
\* draw (recoil) clip stays the current clip on every tick that runs before
\* its callback is due, moving or not.
C24_Original ==
    [][(Update /\ InDelayWindow) => currentAnimation' = currentAnimation]_vars

\* C25 as claimed: a load callback leaves the strafe and forward
\* coordinates of the character as the ticks before it left them.
C25_Original ==
    [][LoadCallback => (position'.x = position.x /\ position'.z = position.z)]_vars

\* the clips of the aiming state
AimingClips ==
    {ANIM_DRAW_ARROW, ANIM_AIM_OVERDRAW, ANIM_AIM_WALK_FORWARD,
     ANIM_AIM_WALK_BACK, ANIM_AIM_WALK_LEFT, ANIM_AIM_WALK_RIGHT}

\* C26: when the model and all eight clips were loaded before the first
\* right click, the current clip is idle or recoil whenever isAiming is
\* false, and draw, aim-overdraw or an aim-walk clip whenever it is true.
C26_ClipMatchesFlag ==
    IF isAiming THEN currentAnimation \in AimingClips
                ELSE currentAnimation \in {ANIM_IDLE, ANIM_AIM_RECOIL}

\* recoil is still the current clip of a walking archer when the callback
\* of an earlier right click fires and finds isAiming false
C26_Witness ==
    /\ ~isAiming /\ currentAnimation = ANIM_AIM_RECOIL
    /\ isKeyDown("a") /\ moveSpeed = NormalSpeed
    /\ Due # {} /\ Fired.kind = "draw" /\ Fired.stale

\* the looping clips of the aiming state
AimLoopClips == AimingClips \ {ANIM_DRAW_ARROW}

\* C27 as claimed: after a tick that starts with isAiming false, whatever
\* clips are loaded, the current clip is not aim-overdraw or an aim-walk
\* clip.
C27_Original ==
    [][(Update /\ ~isAiming) => currentAnimation' \notin AimLoopClips]_vars

\* C28 as claimed: a clip-load callback that runs while isAiming is true
\* does not make idle the current clip.
C28_Original ==
    [][((\E animName \in ClipNames : AnimLoadSuccess(animName)) /\ isAiming)
          => (currentAnimation' = ANIM_IDLE => currentAnimation = ANIM_IDLE)]_vars

\* C29 as claimed: the vertical scale of the character's mesh is 1.3 only
\* while isAiming is true.
C29_Original == scalingY = ScaleAim => isAiming

\* no delayed transition is pending and a tick would start or stop no clip
Settled == timers = << >> /\ UpdatePlay.fx = NoEffect

\* C30: if from some point on there is no right click and no key event,
\* then from some point on every delayed transition has fired and the
\* current clip is the one the tick selects, so that no clip is started or
\* stopped any more.
C30_Stabilises ==
    <>[][~OnRightClick /\ ~KeyEvent]_vars => <>[]Settled

\* the last callback has fired on a walking, aiming archer and selected
\* aim-overdraw; the next tick selects aim-walk-forward again, and then
\* nothing changes the clip any more
C30_Witness ==
    /\ timers = << >> /\ isAiming /\ isKeyDown("w")
    /\ currentAnimation = ANIM_AIM_OVERDRAW
    /\ UpdatePlay.cur = ANIM_AIM_WALK_FORWARD
    /\ moveSpeed = AimSpeed /\ position.z.r > 0

====
